---------------------------- MODULE Spec2Model ----------------------------
(***************************************************************************)
(* The three rate limiters of src/rate_limiter: FixedWindowCounter,        *)
(* TokenBucket and LeakingBucket.                                          *)
(*                                                                         *)
(* Time.  Both clocks (time.time() and time.monotonic()) are counted in    *)
(* ticks of 1/TicksPerSec second and only move forward.  The floats of the *)
(* source are modelled as exact rationals:                                 *)
(*   - a time is a whole number of ticks;                                  *)
(*   - TokenBucket.tokens is held in units of 1/TicksPerSec token, so that *)
(*     elapsed_time * refill_rate is exact;                                *)
(*   - LeakingBucket.last_processed_time is held as the whole number       *)
(*     last_processed_time * outflow_rate (in ticks), since line 51 adds   *)
(*     n / outflow_rate, which is not a whole number of ticks.             *)
(* Rounding of IEEE doubles is not modelled.                               *)
(***************************************************************************)
EXTENDS Integers, Sequences, FiniteSets, TLC

VARIABLES
    time_time,       \* time.time(), in ticks
    time_monotonic,  \* time.monotonic(), in ticks
    fwc,             \* the FixedWindowCounter object
    fw_log,          \* history: the allow_request calls made, [t, ok]
    tb,              \* the TokenBucket object
    tb_hist,         \* history of the TokenBucket calls (see TB_NoHist)
    lb,              \* the LeakingBucket object
    lb_hist,         \* history: construction time t0 and the add_request calls
    pc,              \* per thread: the line of the call it will run next
    loc,             \* per thread: the local variables of its call
    res              \* per thread: the outcome of its call

thrVars == <<pc, loc, res>>
vars == <<time_time, time_monotonic, fwc, fw_log, tb, tb_hist, lb, lb_hist,
          pc, loc, res>>

---------------------------------------------------------------------------
(* Bounds of the model *)

TicksPerSec == 2
MaxTime == 4
MaxParam == 2
MaxCalls == 5
MaxCost == 2
NThreads == 3

\* The constructor arguments tried: the negative and the zero ones too.
Params == -1..MaxParam

---------------------------------------------------------------------------
(* Arithmetic of the source language *)

\* Python's a // b on numbers: the floor of a / b, for b # 0.
FloorDiv(a, b) == IF b > 0 THEN a \div b ELSE (-a) \div (-b)

\* Python's int(a / b) for b > 0: truncation toward zero.
IntTrunc(a, b) == IF a >= 0 THEN a \div b ELSE -((-a) \div b)

Min(a, b) == IF a <= b THEN a ELSE b

---------------------------------------------------------------------------
(* FixedWindowCounter *)

\* No object yet: the state before the constructor runs.
FWC_None ==
    [obj |-> "none", window_size |-> 0, request_threshold |-> 0,
     current_window_start |-> 0, request_count |-> 0]

\* _get_current_window returning the index of the window,
\* int(time.time() // window_size), for its start.
FWC_get_current_window_index(window_size, now) ==
    FloorDiv(now, window_size * TicksPerSec) * TicksPerSec

\* _get_current_window: int(time.time() // window_size) * window_size, in ticks.
FWC_get_current_window(window_size, now) ==
    FloorDiv(now, window_size * TicksPerSec) * (window_size * TicksPerSec)

\* The rollover without its reset of request_count.
FWC_rollover_keeps_count(self, current_window_start) ==
    [self EXCEPT !.current_window_start = current_window_start]

\* The rollover with >= for != in its test: every call resets the count.
FWC_rollover_at_or_after(self, current_window_start) ==
    IF current_window_start >= self.current_window_start
    THEN [self EXCEPT !.current_window_start = current_window_start,
                      !.request_count = 0]
    ELSE self

\* Lines 46-48: the rollover.
FWC_rollover(self, current_window_start) ==
    IF current_window_start # self.current_window_start
    THEN [self EXCEPT !.current_window_start = current_window_start,
                      !.request_count = 0]
    ELSE self

\* The admission test with <= for <.
FWC_admits_one_more(self) == self.request_count <= self.request_threshold

\* Line 50: the admission test.
FWC_admits(self) == self.request_count < self.request_threshold

\* Lines 50-53: count the request when admitted.
FWC_count(self) ==
    IF FWC_admits(self)
    THEN [self EXCEPT !.request_count = self.request_count + 1]
    ELSE self

\* __init__: window_size = 0 raises ZeroDivisionError in _get_current_window
\* (line 34) and no object results; nothing else is validated.
FWC_init(window_size, request_threshold) ==
    /\ fwc.obj = "none"
    /\ fwc' = IF window_size = 0
              THEN [FWC_None EXCEPT !.obj = "ZeroDivisionError",
                                    !.window_size = window_size,
                                    !.request_threshold = request_threshold]
              ELSE [obj |-> "live",
                    window_size |-> window_size,
                    request_threshold |-> request_threshold,
                    current_window_start |->
                        FWC_get_current_window(window_size, time_time),
                    request_count |-> 0]
    /\ UNCHANGED <<time_time, time_monotonic, fw_log, tb, tb_hist, lb, lb_hist, thrVars>>

\* allow_request, called by one caller at a time.
FWC_allow_request ==
    /\ fwc.obj = "live"
    /\ Len(fw_log) < MaxCalls
    /\ LET rolled == FWC_rollover(fwc,
                        FWC_get_current_window(fwc.window_size, time_time))
       IN /\ fwc' = FWC_count(rolled)
          /\ fw_log' = Append(fw_log, [t |-> time_time, ok |-> FWC_admits(rolled)])
    /\ UNCHANGED <<time_time, time_monotonic, tb, tb_hist, lb, lb_hist, thrVars>>

\* time.time() moves forward.
TickWall ==
    /\ \E d \in 1..(MaxTime - time_time) : time_time' = time_time + d
    /\ UNCHANGED <<time_monotonic, fwc, fw_log, tb, tb_hist, lb, lb_hist, thrVars>>

---------------------------------------------------------------------------
(* TokenBucket *)

\* bucket_size of the demonstration run (line 61).
DemoBucket == 5

TB_BucketSizes == Params \cup {DemoBucket}
Costs == 0..MaxCost
\* The costs a caller may pass: allow_request checks nothing.
AnyCosts == -1..MaxCost
\* Enough calls to empty the demonstration bucket, be rejected and call again.
TB_MaxCalls == DemoBucket + 2

TB_None ==
    [obj |-> "none", bucket_size |-> 0, refill_rate |-> 0,
     tokens |-> 0, last_refill_time |-> 0]

\* One burst: the calls made at one instant t; x is the token level the first
\* of them saw after its refill, n the calls, a the admitted ones, pure
\* whether every one of them asked for exactly one token.
TB_NoBurst == [t |-> 0, x |-> 0, n |-> 0, a |-> 0, pure |-> TRUE]

\* calls: allow_request calls made; cost, ok, raised: argument, result and
\* exception ("" for none) of the last one; cur, prev: the current burst and
\* the one before; t0: the time of construction; spent: the total cost of the
\* admitted calls.
TB_NoHist ==
    [calls |-> 0, cost |-> 0, ok |-> FALSE, raised |-> "",
     cur |-> TB_NoBurst, prev |-> TB_NoBurst, t0 |-> 0, spent |-> 0]

\* __init__ (lines 28-32): the bucket starts full; nothing is validated.
TB_init(bucket_size, refill_rate) ==
    /\ tb.obj = "none"
    /\ tb' = [obj |-> "live",
              bucket_size |-> bucket_size,
              refill_rate |-> refill_rate,
              tokens |-> bucket_size * TicksPerSec,
              last_refill_time |-> time_monotonic]
    /\ tb_hist' = [TB_NoHist EXCEPT !.cur.t = time_monotonic,
                                    !.cur.x = tb'.tokens,
                                    !.t0 = time_monotonic]
    /\ UNCHANGED <<time_time, time_monotonic, fwc, fw_log, lb, lb_hist, thrVars>>

\* _refill without the clamp to bucket_size.
TB_refill_unclamped(self, now) ==
    [self EXCEPT !.tokens = self.tokens
                            + (now - self.last_refill_time) * self.refill_rate,
                 !.last_refill_time = now]

\* _refill adding the elapsed time itself, as if refill_rate were 1.
TB_refill_ignores_rate(self, now) ==
    [self EXCEPT !.tokens = Min(self.bucket_size * TicksPerSec,
                                self.tokens + (now - self.last_refill_time)),
                 !.last_refill_time = now]

\* _refill without line 42: last_refill_time stays where it was.
TB_refill_keeps_time(self, now) ==
    [self EXCEPT !.tokens = Min(self.bucket_size * TicksPerSec,
                                self.tokens
                                + (now - self.last_refill_time) * self.refill_rate)]

\* _refill (lines 38-42).
TB_refill(self, now) ==
    LET elapsed_time == now - self.last_refill_time
        new_tokens == elapsed_time * self.refill_rate
    IN [self EXCEPT !.tokens = Min(self.bucket_size * TicksPerSec,
                                   self.tokens + new_tokens),
                    !.last_refill_time = now]

\* The admission test with > for >=.
TB_admits_strict(self, tokens) == self.tokens > tokens * TicksPerSec

\* Line 55: the admission test.
TB_admits(self, tokens) == self.tokens >= tokens * TicksPerSec

\* Consuming the tokens of a rejected call as well.
TB_consume_always(self, tokens) ==
    [self EXCEPT !.tokens = self.tokens - tokens * TicksPerSec]

\* A rejected call taking the tokens that are there.
TB_consume_partial(self, tokens) ==
    IF TB_admits(self, tokens)
    THEN [self EXCEPT !.tokens = self.tokens - tokens * TicksPerSec]
    ELSE [self EXCEPT !.tokens = 0]

\* Lines 55-58: consume the tokens when admitted.
TB_consume(self, tokens) ==
    IF TB_admits(self, tokens)
    THEN [self EXCEPT !.tokens = self.tokens - tokens * TicksPerSec]
    ELSE self

\* The burst after one more call at its instant; a burst in which some call
\* asked for another cost than 1 is no longer counted.
TB_burst(b, now, x, tokens, ok) ==
    LET first == now # b.t
        n == IF first THEN 0 ELSE b.n
        a == IF first THEN 0 ELSE b.a
        pure == (first \/ b.pure) /\ tokens = 1
    IN IF pure
       THEN [t |-> now, x |-> IF first THEN x ELSE b.x, n |-> n + 1,
             a |-> a + (IF ok THEN 1 ELSE 0), pure |-> TRUE]
       ELSE [t |-> now, x |-> 0, n |-> 0, a |-> 0, pure |-> FALSE]

\* The history after a call at `now` that saw level x after its refill.
TB_record(h, now, x, tokens, ok) ==
    [calls |-> h.calls + 1, cost |-> tokens, ok |-> ok, raised |-> "",
     cur |-> TB_burst(h.cur, now, x, tokens, ok),
     prev |-> IF now = h.cur.t THEN h.prev ELSE h.cur,
     t0 |-> h.t0,
     spent |-> h.spent + (IF ok THEN tokens ELSE 0)]

\* allow_request(tokens), called by one caller at a time.
TB_allow_request(tokens) ==
    /\ tb.obj = "live"
    /\ tb_hist.calls < TB_MaxCalls
    /\ LET filled == TB_refill(tb, time_monotonic)
       IN /\ tb' = TB_consume(filled, tokens)
          /\ tb_hist' = TB_record(tb_hist, time_monotonic, filled.tokens,
                                  tokens, TB_admits(filled, tokens))
    /\ UNCHANGED <<time_time, time_monotonic, fwc, fw_log, lb, lb_hist, thrVars>>

\* time.monotonic() moves forward.
TickMono ==
    /\ \E d \in 1..(MaxTime - time_monotonic) : time_monotonic' = time_monotonic + d
    /\ UNCHANGED <<time_time, fwc, fw_log, tb, tb_hist, lb, lb_hist, thrVars>>

---------------------------------------------------------------------------
(* LeakingBucket *)

\* The bucket sizes a LeakingBucket is constructed with.
LB_BucketSizes == -1..(MaxParam + 1)

LB_None ==
    [obj |-> "none", bucket_size |-> 0, outflow_rate |-> 0,
     queue |-> <<>>, last_processed_time |-> 0]

\* t0: the time of construction; calls: one entry per add_request call,
\* [t: its time, n: its request_to_process, popped: the entries it removed,
\*  len: the length of the queue it left, ok: its result, raised: the
\*  exception it ended with, or ""].
LB_NoHist == [t0 |-> 0, calls |-> <<>>]

\* __init__ (lines 31-34): nothing is validated.
LB_init(bucket_size, outflow_rate) ==
    /\ lb.obj = "none"
    /\ lb' = [obj |-> "live",
              bucket_size |-> bucket_size,
              outflow_rate |-> outflow_rate,
              queue |-> <<>>,
              last_processed_time |-> time_monotonic * outflow_rate]
    /\ lb_hist' = [t0 |-> time_monotonic, calls |-> <<>>]
    /\ UNCHANGED <<time_time, time_monotonic, fwc, fw_log, tb, tb_hist, thrVars>>

\* request_to_process rounded up, math.ceil for int.
LB_request_to_process_ceil(self, now) ==
    FloorDiv(now * self.outflow_rate - self.last_processed_time
             + TicksPerSec - 1, TicksPerSec)

\* Lines 40-43: request_to_process = int(elapsed_time * outflow_rate).
LB_request_to_process(self, now) ==
    IntTrunc(now * self.outflow_rate - self.last_processed_time, TicksPerSec)

\* The loop of lines 45-49 run at most once.
LB_popped_one(self, request_to_process) ==
    IF request_to_process <= 0 THEN 0 ELSE Min(1, Len(self.queue))

\* Lines 45-49: the entries the loop removes from the front of the queue.
LB_popped(self, request_to_process) ==
    IF request_to_process <= 0 THEN 0
    ELSE Min(request_to_process, Len(self.queue))

\* Line 51 raises ZeroDivisionError when outflow_rate = 0.
LB_raises(self) == self.outflow_rate = 0

\* _process_queue with last_processed_time = now for line 51.
LB_process_queue_to_now(self, now) ==
    LET k == LB_popped(self, LB_request_to_process(self, now))
    IN [self EXCEPT !.queue = SubSeq(self.queue, k + 1, Len(self.queue)),
                    !.last_processed_time = now * self.outflow_rate]

\* _process_queue advancing last_processed_time by the entries it removed.
LB_process_queue_by_popped(self, now) ==
    LET k == LB_popped(self, LB_request_to_process(self, now))
    IN [self EXCEPT !.queue = SubSeq(self.queue, k + 1, Len(self.queue)),
                    !.last_processed_time = @ + k * TicksPerSec]

\* _process_queue (lines 40-51), for outflow_rate # 0.
LB_process_queue(self, now) ==
    LET request_to_process == LB_request_to_process(self, now)
        k == LB_popped(self, request_to_process)
    IN [self EXCEPT !.queue = SubSeq(self.queue, k + 1, Len(self.queue)),
                    !.last_processed_time = @ + request_to_process * TicksPerSec]

\* The admission test with <= for <.
LB_admits_one_more(self) == Len(self.queue) <= self.bucket_size

\* Line 62: the admission test.
LB_admits(self) == Len(self.queue) < self.bucket_size

\* Lines 62-65: queue the request when admitted.
LB_enqueue(self, now) ==
    IF LB_admits(self)
    THEN [self EXCEPT !.queue = Append(self.queue, now)]
    ELSE self

\* add_request, called by one caller at a time.  With outflow_rate = 0 the
\* loop of _process_queue runs zero times and line 51 raises: the object is
\* left as it was.
LB_add_request ==
    /\ lb.obj = "live"
    /\ Len(lb_hist.calls) < MaxCalls
    /\ LET n == LB_request_to_process(lb, time_monotonic)
           k == LB_popped(lb, n)
       IN IF LB_raises(lb)
          THEN /\ lb' = lb
               /\ lb_hist' = [lb_hist EXCEPT !.calls = Append(@,
                      [t |-> time_monotonic, n |-> n, popped |-> k,
                       len |-> Len(lb.queue),
                       ok |-> FALSE, raised |-> "ZeroDivisionError"])]
          ELSE LET drained == LB_process_queue(lb, time_monotonic)
               IN /\ lb' = LB_enqueue(drained, time_monotonic)
                  /\ lb_hist' = [lb_hist EXCEPT !.calls = Append(@,
                         [t |-> time_monotonic, n |-> n, popped |-> k,
                          len |-> Len(lb'.queue),
                          ok |-> LB_admits(drained), raised |-> ""])]
    /\ UNCHANGED <<time_time, time_monotonic, fwc, fw_log, tb, tb_hist, thrVars>>

---------------------------------------------------------------------------
(* Threads.  The classes hold no lock, so the calls of several threads on   *)
(* one object interleave between any two accesses of the object's fields.  *)
(* Each thread makes one call; a step is one read or one write of a field  *)
(* (with the local computation around it), named after its source line.    *)

Threads == 1..NThreads

\* The two threads whose calls on one bucket run concurrently.
BucketThreads == {1, 2}

\* The locals of a call: now, the window start or request_to_process (n),
\* the loop counter (i) and the value read for a read-modify-write (tmp).
NoLocals == [now |-> 0, n |-> 0, i |-> 0, tmp |-> 0]

Goto(t, label) == pc' = [pc EXCEPT ![t] = label]

Return(t, outcome) ==
    /\ pc' = [pc EXCEPT ![t] = "done"]
    /\ res' = [res EXCEPT ![t] = outcome]

fwRest == <<time_time, time_monotonic, fw_log, tb, tb_hist, lb, lb_hist>>
tbRest == <<time_time, time_monotonic, fwc, fw_log, tb_hist, lb, lb_hist>>
lbRest == <<time_time, time_monotonic, fwc, fw_log, tb, tb_hist, lb_hist>>

\* FixedWindowCounter.allow_request, lines 43-44: read the clock and compute
\* the window start.
FWC_t44(t) ==
    /\ pc[t] = "idle" /\ fwc.obj = "live"
    /\ loc' = [loc EXCEPT ![t].now = time_time,
                          ![t].n = FWC_get_current_window(fwc.window_size, time_time)]
    /\ Goto(t, "fw46")
    /\ UNCHANGED <<fwc, res, fwRest>>

\* Line 46: compare with self.current_window_start.
FWC_t46(t) ==
    /\ pc[t] = "fw46"
    /\ Goto(t, IF loc[t].n # fwc.current_window_start THEN "fw47" ELSE "fw50")
    /\ UNCHANGED <<fwc, loc, res, fwRest>>

\* Line 47.
FWC_t47(t) ==
    /\ pc[t] = "fw47"
    /\ fwc' = [fwc EXCEPT !.current_window_start = loc[t].n]
    /\ Goto(t, "fw48")
    /\ UNCHANGED <<loc, res, fwRest>>

\* Line 48.
FWC_t48(t) ==
    /\ pc[t] = "fw48"
    /\ fwc' = [fwc EXCEPT !.request_count = 0]
    /\ Goto(t, "fw50")
    /\ UNCHANGED <<loc, res, fwRest>>

\* Line 50: the admission test; line 53 when it fails.
FWC_t50(t) ==
    /\ pc[t] = "fw50"
    /\ IF FWC_admits(fwc)
       THEN Goto(t, "fw51") /\ UNCHANGED res
       ELSE Return(t, "False")
    /\ UNCHANGED <<fwc, loc, fwRest>>

\* Line 51, the read of self.request_count += 1.
FWC_t51_read(t) ==
    /\ pc[t] = "fw51"
    /\ loc' = [loc EXCEPT ![t].tmp = fwc.request_count + 1]
    /\ Goto(t, "fw51w")
    /\ UNCHANGED <<fwc, res, fwRest>>

\* Line 51, the write, and line 52.
FWC_t51_write(t) ==
    /\ pc[t] = "fw51w"
    /\ fwc' = [fwc EXCEPT !.request_count = loc[t].tmp]
    /\ Return(t, "True")
    /\ UNCHANGED <<loc, fwRest>>

FWC_thread(t) ==
    \/ FWC_t44(t) \/ FWC_t46(t) \/ FWC_t47(t) \/ FWC_t48(t)
    \/ FWC_t50(t) \/ FWC_t51_read(t) \/ FWC_t51_write(t)

\* TokenBucket.allow_request(1) -> _refill, lines 38-40: read the clock and
\* self.last_refill_time.
TB_t39(t) ==
    /\ pc[t] = "idle" /\ tb.obj = "live"
    /\ loc' = [loc EXCEPT ![t].now = time_monotonic,
                          ![t].n = (time_monotonic - tb.last_refill_time)
                                   * tb.refill_rate]
    /\ Goto(t, "tb41")
    /\ UNCHANGED <<tb, res, tbRest>>

\* Line 41, the read of self.tokens.
TB_t41_read(t) ==
    /\ pc[t] = "tb41"
    /\ loc' = [loc EXCEPT ![t].tmp =
                  Min(tb.bucket_size * TicksPerSec, tb.tokens + loc[t].n)]
    /\ Goto(t, "tb41w")
    /\ UNCHANGED <<tb, res, tbRest>>

\* Line 41, the write of self.tokens.
TB_t41_write(t) ==
    /\ pc[t] = "tb41w"
    /\ tb' = [tb EXCEPT !.tokens = loc[t].tmp]
    /\ Goto(t, "tb42")
    /\ UNCHANGED <<loc, res, tbRest>>

\* Line 42.
TB_t42(t) ==
    /\ pc[t] = "tb42"
    /\ tb' = [tb EXCEPT !.last_refill_time = loc[t].now]
    /\ Goto(t, "tb55")
    /\ UNCHANGED <<loc, res, tbRest>>

\* Line 55: the admission test; line 58 when it fails.
TB_t55(t) ==
    /\ pc[t] = "tb55"
    /\ IF TB_admits(tb, 1)
       THEN Goto(t, "tb56") /\ UNCHANGED res
       ELSE Return(t, "False")
    /\ UNCHANGED <<tb, loc, tbRest>>

\* Line 56, the read of self.tokens -= tokens.
TB_t56_read(t) ==
    /\ pc[t] = "tb56"
    /\ loc' = [loc EXCEPT ![t].tmp = tb.tokens - 1 * TicksPerSec]
    /\ Goto(t, "tb56w")
    /\ UNCHANGED <<tb, res, tbRest>>

\* Line 56, the write, and line 57.
TB_t56_write(t) ==
    /\ pc[t] = "tb56w"
    /\ tb' = [tb EXCEPT !.tokens = loc[t].tmp]
    /\ Return(t, "True")
    /\ UNCHANGED <<loc, tbRest>>

TB_thread(t) ==
    \/ TB_t39(t) \/ TB_t41_read(t) \/ TB_t41_write(t) \/ TB_t42(t)
    \/ TB_t55(t) \/ TB_t56_read(t) \/ TB_t56_write(t)

\* Where the loop of lines 45-49 goes after i rounds of n.
LB_loop(i, n) == IF i < n THEN "lb46" ELSE "lb51"

\* LeakingBucket.add_request -> _process_queue, lines 40-45: read the clock
\* and self.last_processed_time.
LB_t41(t) ==
    /\ pc[t] = "idle" /\ lb.obj = "live"
    /\ LET n == LB_request_to_process(lb, time_monotonic)
       IN /\ loc' = [loc EXCEPT ![t].now = time_monotonic, ![t].n = n, ![t].i = 0]
          /\ Goto(t, LB_loop(0, n))
    /\ UNCHANGED <<lb, res, lbRest>>

\* Line 46: if self.queue; line 49 when it is empty.
LB_t46(t) ==
    /\ pc[t] = "lb46"
    /\ Goto(t, IF Len(lb.queue) > 0 THEN "lb47" ELSE "lb51")
    /\ UNCHANGED <<lb, loc, res, lbRest>>

\* Line 47: popleft(), which raises IndexError on an empty deque.
LB_t47(t) ==
    /\ pc[t] = "lb47"
    /\ IF Len(lb.queue) = 0
       THEN /\ Return(t, "IndexError")
            /\ UNCHANGED <<lb, loc>>
       ELSE /\ lb' = [lb EXCEPT !.queue = Tail(lb.queue)]
            /\ loc' = [loc EXCEPT ![t].i = loc[t].i + 1]
            /\ Goto(t, LB_loop(loc[t].i + 1, loc[t].n))
            /\ UNCHANGED res
    /\ UNCHANGED lbRest

\* Line 51, the read of self.last_processed_time += n / outflow_rate.
LB_t51_read(t) ==
    /\ pc[t] = "lb51"
    /\ IF LB_raises(lb)
       THEN /\ Return(t, "ZeroDivisionError")
            /\ UNCHANGED loc
       ELSE /\ loc' = [loc EXCEPT ![t].tmp =
                          lb.last_processed_time + loc[t].n * TicksPerSec]
            /\ Goto(t, "lb51w")
            /\ UNCHANGED res
    /\ UNCHANGED <<lb, lbRest>>

\* Line 51, the write.
LB_t51_write(t) ==
    /\ pc[t] = "lb51w"
    /\ lb' = [lb EXCEPT !.last_processed_time = loc[t].tmp]
    /\ Goto(t, "lb62")
    /\ UNCHANGED <<loc, res, lbRest>>

\* Line 62: the admission test; line 65 when it fails.
LB_t62(t) ==
    /\ pc[t] = "lb62"
    /\ IF LB_admits(lb)
       THEN Goto(t, "lb63") /\ UNCHANGED res
       ELSE Return(t, "False")
    /\ UNCHANGED <<lb, loc, lbRest>>

\* Lines 63-64: append(time.monotonic()).
LB_t63(t) ==
    /\ pc[t] = "lb63"
    /\ lb' = [lb EXCEPT !.queue = Append(lb.queue, time_monotonic)]
    /\ Return(t, "True")
    /\ UNCHANGED <<loc, lbRest>>

LB_thread(t) ==
    \/ LB_t41(t) \/ LB_t46(t) \/ LB_t47(t) \/ LB_t51_read(t)
    \/ LB_t51_write(t) \/ LB_t62(t) \/ LB_t63(t)

---------------------------------------------------------------------------
(* Specifications *)

Init ==
    /\ time_time = 0
    /\ time_monotonic = 0
    /\ fwc = FWC_None
    /\ fw_log = <<>>
    /\ tb = TB_None
    /\ tb_hist = TB_NoHist
    /\ lb = LB_None
    /\ lb_hist = LB_NoHist
    /\ pc = [t \in Threads |-> "idle"]
    /\ loc = [t \in Threads |-> NoLocals]
    /\ res = [t \in Threads |-> "none"]

NextFW ==
    \/ \E w \in Params, t \in Params : FWC_init(w, t)
    \/ FWC_allow_request
    \/ TickWall

SpecFW == Init /\ [][NextFW]_vars

NextTB ==
    \/ \E b \in TB_BucketSizes, r \in Params : TB_init(b, r)
    \/ \E c \in Costs : TB_allow_request(c)
    \/ TickMono

SpecTB == Init /\ [][NextTB]_vars

\* TokenBucket called with any integer cost, the negative ones too.
NextTBAnyCost ==
    \/ \E b \in Params, r \in Params : TB_init(b, r)
    \/ \E c \in AnyCosts : TB_allow_request(c)
    \/ TickMono

SpecTBAnyCost == Init /\ [][NextTBAnyCost]_vars

NextLB ==
    \/ \E b \in LB_BucketSizes, r \in Params : LB_init(b, r)
    \/ LB_add_request
    \/ TickMono

SpecLB == Init /\ [][NextLB]_vars

\* NThreads threads, each calling allow_request once on one FixedWindowCounter.
NextFWThreads ==
    \/ \E w \in Params, t \in Params : FWC_init(w, t)
    \/ \E t \in Threads : FWC_thread(t)
    \/ TickWall

SpecFWThreads == Init /\ [][NextFWThreads]_vars

\* Two threads sharing one bucket, either a TokenBucket, on which each calls
\* allow_request(1), or a LeakingBucket, on which each calls add_request.
NextBucketThreads ==
    \/ \E b \in Params, r \in Params : lb.obj = "none" /\ TB_init(b, r)
    \/ \E b \in Params, r \in Params : tb.obj = "none" /\ LB_init(b, r)
    \/ \E t \in BucketThreads : TB_thread(t)
    \/ \E t \in BucketThreads : LB_thread(t)
    \/ TickMono

SpecBucketThreads == Init /\ [][NextBucketThreads]_vars

\* One limiter of any of the three kinds, called by one caller at a time.
\* Only the clock that limiter reads moves: the other one, which nothing
\* reads, stands at 0.
NextOne ==
    \/ \E w \in Params, t \in Params :
          tb.obj = "none" /\ lb.obj = "none" /\ FWC_init(w, t)
    \/ \E b \in Params, r \in Params :
          fwc.obj = "none" /\ lb.obj = "none" /\ TB_init(b, r)
    \/ \E b \in Params, r \in Params :
          fwc.obj = "none" /\ tb.obj = "none" /\ LB_init(b, r)
    \/ FWC_allow_request
    \/ \E c \in Costs : TB_allow_request(c)
    \/ LB_add_request
    \/ tb.obj = "none" /\ lb.obj = "none" /\ time_monotonic = 0 /\ TickWall
    \/ fwc.obj = "none" /\ time_time = 0 /\ TickMono

SpecOne == Init /\ [][NextOne]_vars

\* The three constructors.
NextConstruct ==
    \/ \E w \in Params, t \in Params : FWC_init(w, t)
    \/ \E b \in TB_BucketSizes, r \in Params : TB_init(b, r)
    \/ \E b \in Params, r \in Params : LB_init(b, r)

SpecConstruct == Init /\ [][NextConstruct]_vars

---------------------------------------------------------------------------
(* Claims about FixedWindowCounter *)

\* The window size of the object, in ticks.
FW_W == fwc.window_size * TicksPerSec

\* The index k of the window [k*W, (k+1)*W) holding time t, for W > 0.
FW_WindowOf(t) == t \div FW_W

FW_Valid ==
    fwc.obj = "live" /\ fwc.window_size > 0 /\ fwc.request_threshold >= 0

\* The calls among the first i whose time lies in the window of call i.
FW_SameWindow(i) ==
    {j \in 1..i : FW_WindowOf(fw_log[j].t) = FW_WindowOf(fw_log[i].t)}

\* C1: for T >= 0 and W > 0, under a forward-moving clock, the calls admitted
\* with times in one window [k*W, (k+1)*W) are at most T; of the calls whose
\* times lie in one window the first T are admitted and every later one is
\* rejected (so T + 1 calls at one instant admit exactly T, and T = 0 admits
\* none).
C1_AtMostThresholdPerWindow ==
    FW_Valid =>
        /\ \A i \in 1..Len(fw_log) :
              Cardinality({j \in FW_SameWindow(i) : fw_log[j].ok})
                  <= fwc.request_threshold
        /\ \A i \in 1..Len(fw_log) :
              fw_log[i].ok <=> Cardinality(FW_SameWindow(i)) <= fwc.request_threshold

\* T + 1 calls at one instant with T = 2: two admitted, the third rejected.
C1_Witness ==
    /\ FW_Valid
    /\ fwc.request_threshold = 2
    /\ Len(fw_log) = 3
    /\ \A i \in 1..3 : fw_log[i].t = fw_log[1].t
    /\ fw_log[1].ok /\ fw_log[2].ok /\ ~fw_log[3].ok

\* A step that is one allow_request call.
FW_Call == Len(fw_log') = Len(fw_log) + 1

FW_Last == fw_log[Len(fw_log)]

\* C8: a call at a time whose window start floor(now / W) * W differs from
\* current_window_start is evaluated against a count of 0 (it is admitted
\* iff T >= 1, and leaves the count at 1 or 0) and sets current_window_start
\* to that window start, however many windows passed; a call at a boundary
\* time k*W leaves current_window_start = k*W; a call in the same window
\* resets nothing.
C8_Rollover ==
    [][(FW_Valid /\ FW_Call) =>
         LET start == (time_time \div FW_W) * FW_W
             T == fwc.request_threshold
         IN /\ fwc'.current_window_start = start
            /\ (time_time % FW_W = 0) => fwc'.current_window_start = time_time
            /\ start # fwc.current_window_start =>
                  /\ FW_Last' .ok = (T >= 1)
                  /\ fwc'.request_count = (IF T >= 1 THEN 1 ELSE 0)
            /\ start = fwc.current_window_start =>
                  fwc'.request_count =
                      fwc.request_count + (IF FW_Last' .ok THEN 1 ELSE 0)
      ]_vars

\* A window was used up, two or more windows passed without a call, and a
\* call exactly at a boundary was admitted as the first of its window.
C8_Witness ==
    /\ FW_Valid
    /\ Len(fw_log) >= 3
    /\ LET n == Len(fw_log)
       IN /\ ~fw_log[n - 1].ok
          /\ FW_WindowOf(fw_log[n].t) >= FW_WindowOf(fw_log[n - 1].t) + 2
          /\ fw_log[n].t % FW_W = 0
          /\ fw_log[n].ok
          /\ fwc.request_count = 1
          /\ fwc.current_window_start = fw_log[n].t

\* C14: the edge burst.  Among the calls whose times lie in one interval of
\* length at most window_size, at most 2 * T are admitted (for T >= 0 and
\* W > 0); the bound is met by T admissions just before a window boundary
\* followed by T just after it.
C14_EdgeBurstAtMostTwice ==
    FW_Valid =>
        \A i \in 1..Len(fw_log) : \A j \in i..Len(fw_log) :
            (fw_log[j].t - fw_log[i].t <= FW_W) =>
                Cardinality({k \in i..j : fw_log[k].ok})
                    <= 2 * fwc.request_threshold

\* T = 2: two calls admitted in the last tick of one window and two more in
\* the first tick of the next, four admissions within less than a window.
C14_Witness ==
    /\ FW_Valid
    /\ fwc.request_threshold = 2
    /\ Len(fw_log) >= 4
    /\ LET n == Len(fw_log)
       IN /\ \A k \in (n - 3)..n : fw_log[k].ok
          /\ fw_log[n - 3].t = fw_log[n - 2].t
          /\ fw_log[n - 1].t = fw_log[n].t
          /\ fw_log[n].t % FW_W = 0
          /\ fw_log[n - 3].t = fw_log[n].t - 1
          /\ fw_log[n].t - fw_log[n - 3].t < FW_W

\* C15: after the construction and after every allow_request of a counter
\* with W > 0 and T >= 0, 0 <= request_count <= T, and current_window_start
\* is a multiple of window_size and the start of the window that holds the
\* time the object observed last:
\* current_window_start <= that time < current_window_start + window_size.
C15_StateInvariant ==
    [][((fwc.obj = "none" \/ FW_Call)
        /\ fwc'.obj = "live" /\ fwc'.window_size > 0
        /\ fwc'.request_threshold >= 0) =>
         LET W == fwc'.window_size * TicksPerSec
         IN /\ 0 <= fwc'.request_count
            /\ fwc'.request_count <= fwc'.request_threshold
            /\ fwc'.current_window_start % W = 0
            /\ fwc'.current_window_start <= time_time
            /\ time_time < fwc'.current_window_start + W
      ]_vars

\* A counter built in a later window than the first has admitted T = 2
\* calls in one window, the last of them strictly inside the window.
C15_Witness ==
    /\ FW_Valid
    /\ fwc.request_threshold = 2
    /\ fwc.request_count = 2
    /\ Len(fw_log) >= 2
    /\ fwc.current_window_start > 0
    /\ FW_Last.t > fwc.current_window_start
    /\ FW_Last.ok

---------------------------------------------------------------------------
(* Claims about TokenBucket *)

\* bucket_size in the units of tokens.
TB_Cap == tb.bucket_size * TicksPerSec

\* C2: for a bucket with bucket_size >= 0 and refill_rate >= 0, after any
\* calls with cost >= 0 and any clock advances, 0 <= tokens <= bucket_size.
C2_TokensWithinBucket ==
    (tb.obj = "live" /\ tb.bucket_size >= 0 /\ tb.refill_rate >= 0) =>
        (0 <= tb.tokens /\ tb.tokens <= TB_Cap)

\* A bucket of 2 was emptied; the clock then ran long enough to refill it
\* twice over (2 s at 2 tokens/s), and the next call saw it just full.
C2_Witness ==
    /\ tb.obj = "live" /\ tb.bucket_size = 2 /\ tb.refill_rate = 2
    /\ tb_hist.prev.pure /\ tb_hist.prev.a = 2 /\ tb_hist.prev.n = 3
    /\ tb_hist.cur.t >= tb_hist.prev.t + 2 * TicksPerSec
    /\ tb_hist.cur.pure /\ tb_hist.cur.n = 1 /\ tb_hist.cur.x = TB_Cap
    /\ tb.tokens = TB_Cap - TicksPerSec

\* A step that is one allow_request call.
TB_Call == tb_hist'.calls = tb_hist.calls + 1

\* C6: every call, admitted or not, first brings tokens to
\* min(bucket_size, tokens + (now - last_refill_time) * refill_rate) and sets
\* last_refill_time to now; it then is admitted iff that level >= cost, and
\* subtracts cost iff admitted.
C6_RefillFirst ==
    [][(tb.obj = "live" /\ TB_Call) =>
         LET level == Min(TB_Cap, tb.tokens
                          + (time_monotonic - tb.last_refill_time) * tb.refill_rate)
             cost == tb_hist'.cost * TicksPerSec
         IN /\ tb'.last_refill_time = time_monotonic
            /\ tb_hist'.ok = (level >= cost)
            /\ tb'.tokens = (IF level >= cost THEN level - cost ELSE level)
      ]_vars

\* The example: bucket_size 5, refill_rate 1; five admits and one reject at
\* t = 0, then a call at t = 2 s that sees 2 tokens and leaves 1.
C6_Witness ==
    /\ tb.obj = "live" /\ tb.bucket_size = 5 /\ tb.refill_rate = 1
    /\ tb_hist.calls = 7
    /\ tb_hist.prev = [t |-> 0, x |-> 5 * TicksPerSec, n |-> 6, a |-> 5,
                       pure |-> TRUE]
    /\ tb_hist.cur = [t |-> 2 * TicksPerSec, x |-> 2 * TicksPerSec, n |-> 1,
                      a |-> 1, pure |-> TRUE]
    /\ tb.tokens = 1 * TicksPerSec
    /\ tb.last_refill_time = 2 * TicksPerSec

\* C9: calls of cost 1 made at one instant, the first of which sees the
\* token level x >= 0, admit the first floor(x) of them and reject every
\* later one; a fresh bucket has x = bucket_size.
C9_ZeroElapsedAdmitsFloor ==
    /\ (tb.obj = "live" /\ tb_hist.cur.pure /\ tb_hist.cur.x >= 0) =>
          tb_hist.cur.a = Min(tb_hist.cur.n, tb_hist.cur.x \div TicksPerSec)
    /\ (tb.obj = "live" /\ tb_hist.calls = 0) =>
          (tb.tokens = TB_Cap /\ tb_hist.cur.x = tb.tokens)

\* A burst that started from a fractional level, 1.5 tokens: one call
\* admitted, the next two rejected.
C9_Witness ==
    /\ tb.obj = "live"
    /\ tb_hist.cur.pure
    /\ tb_hist.cur.x = TicksPerSec + 1
    /\ tb_hist.cur.n = 3
    /\ tb_hist.cur.a = 1

\* C11: allow_request with a negative cost fails with InvalidArgument: the
\* call returns no boolean and leaves tokens as it found them or at the
\* level of its refill, so it never raises tokens by the cost and never
\* takes them above bucket_size.
C11_NegativeCostRejected ==
    [][(tb.obj = "live" /\ tb.bucket_size >= 0 /\ tb.refill_rate >= 0
        /\ TB_Call /\ tb_hist'.cost < 0) =>
         /\ tb_hist'.raised = "InvalidArgument"
         /\ ~tb_hist'.ok
         /\ tb'.tokens \in {tb.tokens, TB_refill(tb, time_monotonic).tokens}
         /\ tb'.tokens <= TB_Cap
      ]_vars

\* C13: a bucket with refill_rate = 0 (and bucket_size >= 0) never gains
\* tokens: no step raises tokens, no call raises an error, and the total
\* cost of the calls admitted over its lifetime is at most bucket_size.
C13_ZeroRateNeverGains ==
    [][(tb.obj = "live" /\ tb.refill_rate = 0 /\ tb.bucket_size >= 0) =>
         /\ tb'.tokens <= tb.tokens
         /\ tb_hist'.raised = ""
         /\ tb_hist'.spent <= tb.bucket_size
      ]_vars

\* A bucket of 2 with refill_rate 0 has admitted a total cost of 2; later,
\* after the clock advanced, a call of cost 1 found no token and was
\* rejected.
C13_Witness ==
    /\ tb.obj = "live" /\ tb.refill_rate = 0 /\ tb.bucket_size = 2
    /\ tb_hist.spent = 2
    /\ tb.tokens = 0
    /\ tb.last_refill_time >= tb_hist.t0 + 2 * TicksPerSec
    /\ tb_hist.cost = 1 /\ ~tb_hist.ok

\* C19: for bucket_size >= 0, refill_rate >= 0 and calls of cost >= 0 under
\* a clock that does not go back, the total cost of the calls admitted up to
\* the time t of the last call is at most
\* bucket_size + refill_rate * (t - construction time), and a call whose
\* cost exceeds bucket_size is never admitted.
C19_RateBound ==
    (tb.obj = "live" /\ tb.bucket_size >= 0 /\ tb.refill_rate >= 0) =>
        /\ tb_hist.spent * TicksPerSec
              <= TB_Cap + tb.refill_rate * (tb_hist.cur.t - tb_hist.t0)
        /\ (tb_hist.calls > 0 /\ tb_hist.cost > tb.bucket_size) => ~tb_hist.ok

\* A bucket of 1 refilling 1 token/s admitted cost 1 at construction and
\* cost 1 again 1 s later, which meets the bound 1 + 1 * 1; a call of cost 2
\* at that instant was rejected.
C19_Witness ==
    /\ tb.obj = "live" /\ tb.bucket_size = 1 /\ tb.refill_rate = 1
    /\ tb_hist.calls = 3
    /\ tb_hist.cur.t = tb_hist.t0 + TicksPerSec
    /\ tb_hist.spent = 2
    /\ tb_hist.spent * TicksPerSec
          = TB_Cap + tb.refill_rate * (tb_hist.cur.t - tb_hist.t0)
    /\ tb_hist.cost = 2 /\ ~tb_hist.ok

---------------------------------------------------------------------------
(* Claims about LeakingBucket *)

LB_Calls == lb_hist.calls

\* C3: with bucket_size >= 0 and outflow_rate > 0, after any add_request calls
\* of sequential callers and any clock advances, len(queue) <= bucket_size.
C3_QueueWithinBucket ==
    (lb.obj = "live" /\ lb.bucket_size >= 0 /\ lb.outflow_rate > 0) =>
        Len(lb.queue) <= lb.bucket_size

\* The queue of a bucket of 2 is full and the last call was rejected.
C3_Witness ==
    /\ lb.obj = "live" /\ lb.bucket_size = 2 /\ lb.outflow_rate > 0
    /\ Len(lb.queue) = 2
    /\ Len(LB_Calls) >= 3
    /\ ~LB_Calls[Len(LB_Calls)].ok

\* The sum of request_to_process over the first i calls.
RECURSIVE LB_Credit(_)
LB_Credit(i) == IF i = 0 THEN 0 ELSE LB_Credit(i - 1) + LB_Calls[i].n

\* C7: for outflow_rate > 0 the drain credit does not depend on how the
\* elapsed time is split across calls: after every call the sum of the
\* request_to_process counts of all calls so far is
\* floor((time of that call - construction time) * outflow_rate).
C7_DrainCreditExact ==
    (lb.obj = "live" /\ lb.outflow_rate > 0) =>
        \A i \in 1..Len(LB_Calls) :
            LB_Credit(i) =
                ((LB_Calls[i].t - lb_hist.t0) * lb.outflow_rate) \div TicksPerSec

\* A request is queued, then two calls follow half a drain interval apart:
\* the first drains nothing, the second drains the one request a single call
\* after the full interval would have drained.
C7_Witness ==
    /\ lb.obj = "live" /\ lb.outflow_rate > 0 /\ lb.bucket_size >= 1
    /\ Len(LB_Calls) = 3
    /\ LET half == TicksPerSec \div (2 * lb.outflow_rate)
       IN /\ half * 2 * lb.outflow_rate = TicksPerSec
          /\ LB_Calls[1].t = lb_hist.t0 /\ LB_Calls[1].ok
          /\ LB_Calls[2].t = lb_hist.t0 + half
          /\ LB_Calls[2].n = 0 /\ LB_Calls[2].popped = 0
          /\ LB_Calls[3].t = lb_hist.t0 + 2 * half
          /\ LB_Calls[3].n = 1 /\ LB_Calls[3].popped = 1

\* C12: a LeakingBucket with outflow_rate = 0 never drains: every
\* add_request returns a boolean and raises nothing, the first bucket_size
\* calls return True and every later call returns False, however far the
\* clock has advanced.
C12_ZeroRateFillsOnce ==
    (lb.obj = "live" /\ lb.outflow_rate = 0 /\ lb.bucket_size >= 0) =>
        \A i \in 1..Len(LB_Calls) :
            /\ LB_Calls[i].raised = ""
            /\ LB_Calls[i].ok <=> (i <= lb.bucket_size)

\* A step that is one add_request call.
LB_Call == Len(lb_hist'.calls) = Len(lb_hist.calls) + 1

LB_Last == LB_Calls[Len(LB_Calls)]

\* After call i left the queue full and the clock advanced by k / outflow_rate,
\* of the calls made at that one instant the first k are admitted and every
\* later one is rejected.
LB_FullThenAdvanced(i, k) ==
    (/\ LB_Calls[i].len = lb.bucket_size
     /\ (LB_Calls[i + 1].t - LB_Calls[i].t) * lb.outflow_rate = k * TicksPerSec)
    => \A m \in 1..(Len(LB_Calls) - i) :
          (\A j \in (i + 1)..(i + m) : LB_Calls[j].t = LB_Calls[i + 1].t)
              => (LB_Calls[i + m].ok <=> m <= k)

\* C16: for outflow_rate > 0 every add_request, before its admission test,
\* removes exactly min(n, len(queue)) entries from the front of the queue,
\* n = floor((now - last_processed_time) * outflow_rate), and keeps the rest
\* in order; hence from a full queue, once the clock has advanced by
\* k / outflow_rate (1 <= k <= bucket_size), exactly k further calls at that
\* instant are admitted and the next is rejected.
C16_DrainCount ==
    [][(lb.obj = "live" /\ lb.outflow_rate > 0 /\ lb.bucket_size >= 0
        /\ LB_Call) =>
         LET n == (time_monotonic * lb.outflow_rate - lb.last_processed_time)
                      \div TicksPerSec
             k == Min(n, Len(lb.queue))
             rest == SubSeq(lb.queue, k + 1, Len(lb.queue))
         IN /\ n >= 0
            /\ LB_Last'.popped = k
            /\ LB_Last'.ok = (Len(rest) < lb.bucket_size)
            /\ lb'.queue = (IF LB_Last'.ok THEN Append(rest, time_monotonic)
                                           ELSE rest)
            /\ \A i \in 1..(Len(LB_Calls') - 1) : \A kk \in 1..lb.bucket_size :
                  LB_FullThenAdvanced(i, kk)'
      ]_vars

\* The example: bucket_size 3, outflow_rate 1; three admits and a reject at
\* one instant, then, 1 s later, one admit.
C16_Witness ==
    /\ lb.obj = "live" /\ lb.bucket_size = 3 /\ lb.outflow_rate = 1
    /\ Len(LB_Calls) = 5
    /\ \A i \in 1..4 : LB_Calls[i].t = lb_hist.t0
    /\ LB_Calls[1].ok /\ LB_Calls[2].ok /\ LB_Calls[3].ok /\ ~LB_Calls[4].ok
    /\ LB_Calls[5].t = lb_hist.t0 + TicksPerSec
    /\ LB_Calls[5].popped = 1 /\ LB_Calls[5].ok
    /\ Len(lb.queue) = 3

\* The entries a call step removed from the queue.
LB_Removed ==
    Len(lb.queue) + (IF LB_Last'.ok THEN 1 ELSE 0) - Len(lb'.queue)

\* C17: on every add_request (outflow_rate > 0) last_processed_time advances
\* by a whole multiple of 1 / outflow_rate, and that multiple is the number
\* of requests the call actually removed from the queue, also when the queue
\* empties before floor(elapsed * outflow_rate) entries were removed and
\* when the queue is empty.
C17_AdvanceByPopped ==
    [][(lb.obj = "live" /\ lb.outflow_rate > 0 /\ lb.bucket_size >= 0
        /\ LB_Call) =>
         lb'.last_processed_time =
             lb.last_processed_time + LB_Removed * TicksPerSec
      ]_vars

\* C17, amended: on every add_request (outflow_rate > 0) last_processed_time
\* advances by n / outflow_rate, n = floor(elapsed * outflow_rate) being the
\* drain credit of the call; the call removes min(n, len(queue)) entries, so
\* the advance equals the entries removed exactly when the queue held at
\* least n entries, and exceeds them otherwise.
C17_AdvanceByCredit ==
    [][(lb.obj = "live" /\ lb.outflow_rate > 0 /\ lb.bucket_size >= 0
        /\ LB_Call) =>
         LET n == (time_monotonic * lb.outflow_rate - lb.last_processed_time)
                      \div TicksPerSec
         IN /\ lb'.last_processed_time = lb.last_processed_time + n * TicksPerSec
            /\ LB_Removed = Min(n, Len(lb.queue))
            /\ (Len(lb.queue) < n) =>
                  (lb'.last_processed_time - lb.last_processed_time
                      > LB_Removed * TicksPerSec)
      ]_vars

\* A call with a drain credit of 2 found one request queued: it removed
\* that one, and last_processed_time stands two drain intervals further.
C17_Witness ==
    /\ lb.obj = "live" /\ lb.outflow_rate > 0 /\ lb.bucket_size >= 1
    /\ Len(LB_Calls) = 2
    /\ LB_Calls[1].ok /\ LB_Calls[1].n = 0
    /\ LB_Calls[2].n = 2 /\ LB_Calls[2].popped = 1
    /\ lb.last_processed_time =
           lb_hist.t0 * lb.outflow_rate + 2 * TicksPerSec

\* C20: for outflow_rate > 0 (and bucket_size >= 0), after every add_request
\* at time `now`, 0 <= now - last_processed_time < 1 / outflow_rate, and the
\* calls admitted up to the time t of any call are at most
\* bucket_size + floor((t - construction time) * outflow_rate).
C20_RateBound ==
    (lb.obj = "live" /\ lb.outflow_rate > 0 /\ lb.bucket_size >= 0) =>
        /\ Len(LB_Calls) > 0 =>
              LET lag == LB_Last.t * lb.outflow_rate - lb.last_processed_time
              IN 0 <= lag /\ lag < TicksPerSec
        /\ \A i \in 1..Len(LB_Calls) :
              Cardinality({j \in 1..i : LB_Calls[j].ok})
                  <= lb.bucket_size
                     + ((LB_Calls[i].t - lb_hist.t0) * lb.outflow_rate)
                           \div TicksPerSec

\* A bucket of 1 draining 1 request/s admitted a call at construction and a
\* second one 1 s later, which meets the bound 1 + 1; a third call half a
\* second later was rejected and left half a drain interval unaccounted.
C20_Witness ==
    /\ lb.obj = "live" /\ lb.bucket_size = 1 /\ lb.outflow_rate = 1
    /\ Len(LB_Calls) = 3
    /\ LB_Calls[1].t = lb_hist.t0 /\ LB_Calls[1].ok
    /\ LB_Calls[2].t = lb_hist.t0 + TicksPerSec /\ LB_Calls[2].ok
    /\ LB_Calls[3].t = lb_hist.t0 + TicksPerSec + 1 /\ ~LB_Calls[3].ok
    /\ LB_Calls[3].t * lb.outflow_rate - lb.last_processed_time = 1

---------------------------------------------------------------------------
(* Claims about concurrent callers *)

\* The threads whose call returned True.
Admitted == {t \in Threads : res[t] = "True"}

\* C4: N threads each call allow_request once on a fresh FixedWindowCounter
\* with threshold T < N, all within one window (the clock does not move):
\* when all have returned, exactly T returned True and request_count = T.
C4_ExactlyThresholdAdmitted ==
    (/\ FW_Valid
     /\ NThreads > fwc.request_threshold
     /\ time_time = 0
     /\ \A t \in Threads : pc[t] = "done")
    => (/\ Cardinality(Admitted) = fwc.request_threshold
        /\ fwc.request_count = fwc.request_threshold)

\* C5, TokenBucket: under two concurrent calls tokens never goes below 0,
\* and with one token available (bucket_size 1, the clock has not moved) at
\* most one call returns True.
C5_TokenBucketAtomic ==
    /\ (tb.obj = "live" /\ tb.bucket_size >= 0 /\ tb.refill_rate >= 0) =>
          tb.tokens >= 0
    /\ (tb.obj = "live" /\ tb.bucket_size = 1 /\ tb.refill_rate >= 0
        /\ time_monotonic = 0) =>
          Cardinality(Admitted) <= 1

\* C5, LeakingBucket: under two concurrent calls len(queue) never exceeds
\* bucket_size, and with one free slot (bucket_size 1, empty queue, the
\* clock has not moved) at most one call returns True.
C5_LeakingBucketAtomic ==
    /\ (lb.obj = "live" /\ lb.bucket_size >= 0 /\ lb.outflow_rate > 0) =>
          Len(lb.queue) <= lb.bucket_size
    /\ (lb.obj = "live" /\ lb.bucket_size = 1 /\ lb.outflow_rate > 0
        /\ time_monotonic = 0) =>
          Cardinality(Admitted) <= 1

\* C5: refill or drain, admission test and mutation of one call are one
\* atomic step: of two concurrent calls on a bucket with one token or one
\* free slot at most one returns True, tokens never goes below 0 and
\* len(queue) never exceeds bucket_size.
C5_CallsAreAtomic == C5_TokenBucketAtomic /\ C5_LeakingBucketAtomic

---------------------------------------------------------------------------
(* Claims about rejected calls *)

\* C18: a call that returns False changes no admission state beyond the
\* recomputation from the clock: FixedWindowCounter leaves request_count as
\* it is after the rollover reset, if any; TokenBucket leaves tokens at the
\* level its refill gave; LeakingBucket leaves the queue as its drain left
\* it.  No call changes window_size, request_threshold, bucket_size,
\* refill_rate or outflow_rate.
C18_RejectionChangesNothing ==
    [][/\ (fwc.obj = "live" /\ FW_Call /\ ~FW_Last'.ok) =>
             fwc'.request_count =
                 (IF (time_time \div FW_W) * FW_W # fwc.current_window_start
                  THEN 0 ELSE fwc.request_count)
       /\ (tb.obj = "live" /\ TB_Call /\ ~tb_hist'.ok) =>
             tb'.tokens =
                 Min(TB_Cap, tb.tokens + (time_monotonic - tb.last_refill_time)
                                             * tb.refill_rate)
       /\ (lb.obj = "live" /\ LB_Call /\ LB_Last'.raised = ""
           /\ ~LB_Last'.ok) =>
             LET n == IntTrunc(time_monotonic * lb.outflow_rate
                               - lb.last_processed_time, TicksPerSec)
                 k == IF n <= 0 THEN 0 ELSE Min(n, Len(lb.queue))
             IN lb'.queue = SubSeq(lb.queue, k + 1, Len(lb.queue))
       /\ fwc.obj = "live" =>
             /\ fwc'.window_size = fwc.window_size
             /\ fwc'.request_threshold = fwc.request_threshold
       /\ tb.obj = "live" =>
             /\ tb'.bucket_size = tb.bucket_size
             /\ tb'.refill_rate = tb.refill_rate
       /\ lb.obj = "live" =>
             /\ lb'.bucket_size = lb.bucket_size
             /\ lb'.outflow_rate = lb.outflow_rate
      ]_vars

\* A bucket of 2 refilling 1 token/s was emptied; 1.5 s later a call of
\* cost 2 was rejected and tokens stand at the refilled 1.5.
C18_Witness ==
    /\ tb.obj = "live" /\ tb.bucket_size = 2 /\ tb.refill_rate = 1
    /\ tb_hist.calls >= 2
    /\ tb_hist.cost = 2 /\ ~tb_hist.ok
    /\ tb_hist.spent = 2
    /\ tb.last_refill_time = time_monotonic
    /\ tb.tokens = TicksPerSec + 1

---------------------------------------------------------------------------
(* Claims about construction *)

\* C10: a constructor given a negative window_size, request_threshold,
\* bucket_size, refill_rate or outflow_rate fails with ConfigurationError and
\* yields no object; zero threshold, capacity and rate are accepted.
C10_NegativeParametersRejected ==
    /\ (fwc.obj # "none" /\ (fwc.window_size < 0 \/ fwc.request_threshold < 0))
          => fwc.obj = "ConfigurationError"
    /\ (tb.obj # "none" /\ (tb.bucket_size < 0 \/ tb.refill_rate < 0))
          => tb.obj = "ConfigurationError"
    /\ (lb.obj # "none" /\ (lb.bucket_size < 0 \/ lb.outflow_rate < 0))
          => lb.obj = "ConfigurationError"
    /\ (fwc.obj # "none" /\ fwc.window_size > 0 /\ fwc.request_threshold >= 0)
          => fwc.obj = "live"
    /\ (tb.obj # "none" /\ tb.bucket_size >= 0 /\ tb.refill_rate >= 0)
          => tb.obj = "live"
    /\ (lb.obj # "none" /\ lb.bucket_size >= 0 /\ lb.outflow_rate >= 0)
          => lb.obj = "live"

===========================================================================
